---- MODULE Spec2Model ----
(***************************************************************************)
(* State-machine model of ABCD_ML/pipeline/Model_Pipeline.py: the          *)
(* Evaluate / Test fold loop, the subject restriction, the split           *)
(* generator it consumes and the raw-prediction ledger (raw_preds_df);     *)
(* and of ABCD_ML/helpers/Scopes.py, which resolves a scope to all_keys.   *)
(***************************************************************************)
EXTENDS Integers, Sequences, FiniteSets, TLC

\* ------------------------------------------------------------------ bounds
MaxSubj == 3
MaxRepeats == 2
MaxSplits == 3
MaxMetrics == 2
NumClasses == 3
MaxTargets == 3
MaxScopeLen == 2
MaxImportances == 2
SearchSplits == 2

Subjects == 1..MaxSubj

\* Python's None for optional values: <<>> is None, <<v>> is the value v.
None == <<>>
Some(v) == <<v>>
IsNone(o) == Len(o) = 0
Val(o) == o[1]

\* A missing cell of a pandas DataFrame.
NaN == "NaN"

\* ------------------------------------------------------------ pure helpers
Range(q) == {q[i] : i \in DOMAIN q}

Min(S) == CHOOSE x \in S : \A z \in S : x <= z

RECURSIVE SortedSeq(_)
SortedSeq(S) == IF S = {} THEN <<>> ELSE <<Min(S)>> \o SortedSeq(S \ {Min(S)})

\* The elements of q at the positions P, in q's order.
Pick(q, P) ==
    LET F[i \in 0..Len(q)] ==
            IF i = 0 THEN <<>>
            ELSE IF i \in P THEN Append(F[i - 1], q[i]) ELSE F[i - 1]
    IN F[Len(q)]

Reverse(q) == [i \in 1..Len(q) |-> q[Len(q) + 1 - i]]

\* The hash seeds of the Python process (PYTHONHASHSEED): the iteration
\* order of a set of str keys is fixed within a process and differs from
\* one process to the next.
LocPos(q, s) == {p \in 1..Len(q) : q[p] = s}

HashSeeds == {"a", "b"}

\* list(a_set) in a process with hash seed h.
Enumerate(S, h) == IF h = "a" THEN SortedSeq(S) ELSE Reverse(SortedSeq(S))

\* ------------------------------------------------------------- Data Table
\* The target column of the Data Table, indexed by subject.
data == [s \in Subjects |-> s % NumClasses]

\* The target columns of a Data Table whose ps.target is a list of keys
\* (y is then 2-D): binary labels, one column per target key t.
multi_data(s, t) == (s + t) % 2

\* The strat values handed to leave-one-group-out: one group label per subject.
group_labels == [s \in Subjects |-> (s + 1) \div 2]

VARIABLES
    final_subjects,        \* self.ps._final_subjects (None or a set)
    compute_train_score,   \* self.compute_train_score
    is_search,             \* self.base_model_pipeline.is_search()
    has_proba,             \* whether the estimator has predict_proba
    n_metrics,             \* len(self.metrics)
    n_targets,             \* len(self.ps.target) when it is a list, 0 for one key
    proba_ndim,            \* len(np.shape(self.Model.predict_proba(X)))
    raw_preds_df,          \* self.raw_preds_df
    n_splits_,             \* self.n_splits_ (0 is None)
    Model,                 \* self.Model
    classes,               \* self.classes
    n_test_per_fold,       \* self.n_test_per_fold
    pc,                    \* "idle", "loop", "done", "raised"
    op,                    \* "none", "Evaluate", "Test"
    args,                  \* arguments of the call in progress
    subject_splits,        \* Evaluate's local subject_splits
    fold_ind,              \* Evaluate's local fold_ind
    all_train_scores,      \* Evaluate's local all_train_scores
    all_scores,            \* Evaluate's local all_scores
    ret,                   \* value returned to the caller (None until then)
    err,                   \* the exception that left the call ("none" if none)
    hash_seed,             \* the hash seed of the running Python process
    first,                 \* result of the first of two identical runs
    data_keys,             \* Scopes.data_keys
    data_file_keys,        \* Scopes.data_file_keys
    cat_keys,              \* Scopes.cat_keys
    strat_keys,            \* Scopes.strat_keys
    covars_keys,           \* Scopes.covars_keys
    keys_at_end,           \* Scopes.keys_at_end
    all_keys,              \* Scopes.all_keys (None until set_all_keys ran)
    num_feat_keys,         \* Scopes.num_feat_keys
    set_args,              \* the arguments of the set_all_keys call
    feat_importances_params, \* len(conv_to_list(pipeline_params.feat_importances.obj))
    model_kind,            \* what the fitted base model exposes: "linear" is
                           \* coef_, "tree" is feature_importances_, "other" neither
    search_split_vals,     \* whether param_search supplies split values
    fit_in_place,          \* whether the estimator's fit overwrites its X argument
    feat_importances,      \* self.feat_importances
    flags,                 \* self.flags
    imp_log,               \* the calls made on the feat_imp objects, in order
    search_cv,             \* the search_cv handed to the wrapped pipeline
    data_table,            \* the caller's Data Table: the feature value of each row
    fit_X,                 \* the X array Model.fit received, as fit left it
    fold_ret               \* what the last per-fold Test call returned to Evaluate

config == <<final_subjects, compute_train_score, is_search, has_proba, n_metrics,
            n_targets, proba_ndim, feat_importances_params, model_kind,
            search_split_vals, fit_in_place>>
engine == <<raw_preds_df, n_splits_, Model, classes, n_test_per_fold>>
frame == <<pc, op, args, subject_splits, fold_ind, all_train_scores, all_scores,
           ret, err>>
scopes_fields == <<data_keys, data_file_keys, cat_keys, strat_keys, covars_keys>>
scopes_obj == <<scopes_fields, keys_at_end, all_keys, num_feat_keys, set_args>>
importances == <<feat_importances, flags, imp_log>>
fold_data == <<search_cv, data_table, fit_X, fold_ret>>
vars == <<config, engine, frame, hash_seed, first, scopes_obj, importances, fold_data>>

\* ----------------------------------------------- Model_Pipeline.__init__
NoModel == [state |-> "none", fit_on |-> {}, classes_ |-> <<>>]
NoClasses == [vals |-> <<>>, float |-> TRUE]
NoArgs == [train_subjects |-> {}, test_subjects |-> {}, splits |-> 0,
           n_repeats |-> 0, splits_vals |-> FALSE]
EmptyDf == [index |-> <<>>, cols |-> <<>>]
NoSearchCv == [scheme |-> "none", over |-> <<>>, splits |-> <<>>]

\* The feature value the caller's table holds for every subject.
features == [s \in Subjects |-> s + 1]

\* Mutant of process_feat_importances: one importance object per method
\* given.
process_feat_importances_kept(n_given) == [i \in 1..n_given |-> i]

\* _process_feat_importances: the construction of the importance objects is
\* commented out, and both branches return the empty list.
process_feat_importances(n_given) == <<>>

\* _set_default_params: the flags a new engine starts with.
DefaultFlags == [linear |-> FALSE, tree |-> FALSE]

Constructed ==
    /\ feat_importances = process_feat_importances(feat_importances_params)
    /\ flags = DefaultFlags
    /\ imp_log = <<>>
    /\ search_cv = NoSearchCv
    /\ data_table = features
    /\ fit_X = <<>>
    /\ fold_ret = None
    /\ raw_preds_df = EmptyDf
    /\ n_splits_ = 0
    /\ Model = NoModel
    /\ classes = NoClasses
    /\ n_test_per_fold = <<>>
    /\ pc = "idle"
    /\ op = "none"
    /\ args = NoArgs
    /\ subject_splits = <<>>
    /\ fold_ind = 0
    /\ all_train_scores = <<>>
    /\ all_scores = <<>>
    /\ ret = None
    /\ err = "none"

\* A single target key and a classifier whose predict_proba is 2-D.
SingleTarget ==
    /\ n_targets = 0
    /\ proba_ndim = 2

\* No importance method given, a base model that exposes neither coef_ nor
\* feature_importances_, a search that splits by k-fold, and an estimator
\* that leaves its input alone.
PlainSetup ==
    /\ feat_importances_params = 0
    /\ model_kind = "other"
    /\ search_split_vals = FALSE
    /\ fit_in_place = FALSE

\* A scope or targets_key argument: one str (is_str) or a list of str.
Str(x) == [is_str |-> TRUE, items |-> <<x>>]
List(q) == [is_str |-> FALSE, items |-> q]

\* The Scopes object before set_all_keys is called on it.
ScopesUnset ==
    /\ keys_at_end = <<>>
    /\ all_keys = None
    /\ num_feat_keys = 0
    /\ set_args = [scope |-> List(<<>>), targets_key |-> List(<<>>)]

\* The engine runs on a column list resolved beforehand: the Scopes object
\* plays no part in Evaluate and Test.
NoScopes ==
    /\ data_keys = <<>>
    /\ data_file_keys = <<>>
    /\ cat_keys = <<>>
    /\ strat_keys = <<>>
    /\ covars_keys = <<>>
    /\ ScopesUnset

\* The final-subject filters tried: unset, excluding everyone, and two
\* proper subsets of the subjects.
FilterChoices ==
    {None} \cup {Some(S) : S \in {{}, 1..(MaxSubj - 1), 2..MaxSubj}}

Init ==
    /\ final_subjects \in FilterChoices
    /\ compute_train_score \in BOOLEAN
    /\ is_search \in BOOLEAN
    /\ has_proba \in BOOLEAN
    /\ n_metrics \in 1..MaxMetrics
    /\ SingleTarget
    /\ PlainSetup
    /\ Constructed
    /\ hash_seed \in HashSeeds
    /\ first = None
    /\ NoScopes

\* ------------------------------------------------ _get_subjects_overlap
\* Mutant of Overlap: union with the filter instead of intersection.
Overlap_union(subjects) ==
    IF IsNone(final_subjects) THEN subjects
    ELSE Val(final_subjects) \cup subjects

\* The overlap set computed at lines 152-155.
Overlap(subjects) ==
    IF IsNone(final_subjects) THEN subjects
    ELSE Val(final_subjects) \cap subjects

\* Mutant of get_subjects_overlap: the filter is never applied.
get_subjects_overlap_unfiltered(subjects) == Enumerate(subjects, hash_seed)

\* np.array(list(overlap)), line 157.
get_subjects_overlap(subjects) == Enumerate(Overlap(subjects), hash_seed)

\* ------------------------------------------------------- Split Generator
\* self.ps.random_state, the seed handed to the split generator.
random_state == 1

\* Positions (1-based) of the test subjects of fold f of repeat r (both
\* 0-based) among N subjects cut into k folds: the repeat's shuffle is the
\* rotation by seed + r, and the shuffled positions are dealt to the folds
\* in turn, which gives k nearly-equal, non-overlapping groups.
TestPos(N, k, seed, r, f) == {p \in 1..N : (((p - 1) + seed + r) % N) % k = f}

\* CV.repeated_k_fold(subjects, n_repeats, n_splits, random_state,
\* return_index=False): n_repeats * n_splits pairs <<train, test>>.
repeated_k_fold(subjects, n_repeats, n_splits, seed) ==
    [i \in 1..(n_repeats * n_splits) |->
        LET r == (i - 1) \div n_splits
            f == (i - 1) % n_splits
            P == TestPos(Len(subjects), n_splits, seed, r, f)
        IN <<Pick(subjects, (1..Len(subjects)) \ P), Pick(subjects, P)>>]

\* The split generator rejects a fold count above the subject count.
k_fold_valid(subjects, n_splits) == n_splits >= 2 /\ n_splits <= Len(subjects)

\* The distinct group labels present among the subjects, in sorted order.
GroupsOf(subjects, splits_vals) == SortedSeq({splits_vals[s] : s \in Range(subjects)})

\* CV.get_num_groups(subjects, splits_vals)
get_num_groups(subjects, splits_vals) == Len(GroupsOf(subjects, splits_vals))

\* CV.repeated_leave_one_group_out(subjects, n_repeats, splits_vals,
\* return_index=False): fold g of every repeat holds out group g.
repeated_leave_one_group_out(subjects, n_repeats, splits_vals) ==
    LET G == GroupsOf(subjects, splits_vals)
    IN [i \in 1..(n_repeats * Len(G)) |->
            LET g == G[((i - 1) % Len(G)) + 1]
                P == {p \in 1..Len(subjects) : splits_vals[subjects[p]] = g}
            IN <<Pick(subjects, (1..Len(subjects)) \ P), Pick(subjects, P)>>]

\* Leave-one-group-out needs at least two distinct group labels.
group_out_valid(subjects, splits_vals) == get_num_groups(subjects, splits_vals) >= 2

\* Mutant of eval_n_splits: the fold count is the splits argument in
\* leave-one-group-out mode too.
eval_n_splits_from_arg(train_subjects, splits, splits_vals) == splits

\* Mutant of get_eval_splits: n_repeats and the fold count change places.
get_eval_splits_swapped(train_subjects, splits, n_repeats, splits_vals) ==
    IF ~splits_vals
    THEN repeated_k_fold(train_subjects, splits, n_repeats, random_state)
    ELSE repeated_leave_one_group_out(train_subjects, n_repeats, group_labels)

\* _get_eval_splits: the fold count it stores in self.n_splits_ ...
eval_n_splits(train_subjects, splits, splits_vals) ==
    IF ~splits_vals THEN splits
    ELSE get_num_groups(train_subjects, group_labels)

\* ... whether the split generator accepts the request ...
eval_splits_valid(train_subjects, splits, splits_vals) ==
    IF ~splits_vals THEN k_fold_valid(train_subjects, splits)
    ELSE group_out_valid(train_subjects, group_labels)

\* ... and the splits it returns.
get_eval_splits(train_subjects, splits, n_repeats, splits_vals) ==
    IF ~splits_vals
    THEN repeated_k_fold(train_subjects, n_repeats, splits, random_state)
    ELSE repeated_leave_one_group_out(train_subjects, n_repeats, group_labels)

\* ------------------------------------------------------- _get_search_cv
\* The positions in subjects (return_index=True) of the members of part.
IndexOf(subjects, part) == {p \in 1..Len(subjects) : subjects[p] \in Range(part)}

\* A list of <<train, test>> subject pairs as pairs of position sets.
AsIndex(subjects, pairs) ==
    [i \in 1..Len(pairs) |->
        <<IndexOf(subjects, pairs[i][1]), IndexOf(subjects, pairs[i][2])>>]

\* CV.k_fold(subjects, n_splits, random_state, return_index=True): one
\* repeat of the k-fold scheme, as positions.
k_fold(subjects, n_splits, seed) ==
    IF subjects = <<>> THEN <<>>
    ELSE AsIndex(subjects, repeated_k_fold(subjects, 1, n_splits, seed))

\* CV.leave_one_group_out(subjects, splits_vals, return_index=True)
leave_one_group_out(subjects, splits_vals) ==
    IF subjects = <<>> THEN <<>>
    ELSE AsIndex(subjects, repeated_leave_one_group_out(subjects, 1, splits_vals))

\* Mutant of get_search_cv: the inner scheme is generated over the whole
\* table's index.
get_search_cv_all_rows(train_data_index) ==
    [scheme |-> IF search_split_vals THEN "leave_one_group_out" ELSE "k_fold",
     over |-> SortedSeq(Subjects),
     splits |-> IF search_split_vals
                THEN leave_one_group_out(SortedSeq(Subjects), group_labels)
                ELSE k_fold(SortedSeq(Subjects), SearchSplits, random_state)]

\* _get_search_cv(train_data.index): k-fold over the index it is given
\* when the search has no split values, leave-one-group-out otherwise.
\* Whether the generator accepts the split count is its own concern; a
\* rejection ends the fold like any failure of the fit.
get_search_cv(train_data_index) ==
    [scheme |-> IF search_split_vals THEN "leave_one_group_out" ELSE "k_fold",
     over |-> train_data_index,
     splits |-> IF search_split_vals
                THEN leave_one_group_out(train_data_index, group_labels)
                ELSE k_fold(train_data_index, SearchSplits, random_state)]

\* ------------------------------------------------- estimator and metrics
\* Model.fit(X, y) on the training rows: the estimator remembers its
\* training subjects and the sorted class labels it saw (classes_).
Fitted(train) ==
    [state |-> "fitted", fit_on |-> Range(train),
     classes_ |-> SortedSeq({data[s] : s \in Range(train)})]

\* Model.predict(X)[s]: a deterministic function of the fitted model and
\* the row.
Predict(model, s) ==
    IF s \in model.fit_on THEN data[s] ELSE model.classes_[1]

\* Model.predict_proba(X)[s, i]: one column per class of classes_.
PredictProba(model, s, i) == IF Predict(model, s) = model.classes_[i] THEN 1 ELSE 0

\* Model.predict(X)[s, t] of a multi-output estimator (2-D y): one column
\* per target; it is also the positive-class probability
\* predict_proba(X)[t][s][1] of the 3-D probability output.
PredictOut(model, s, t) == IF s \in model.fit_on THEN multi_data(s, t) ELSE 0

\* Model.predict_proba(X)[s] of an estimator whose probability output is a
\* 1-D array.
PredictProbaFlat(model, s) == IF s \in model.fit_on THEN 1 ELSE 0

\* metric(self.Model, X_test, y_test) for the m-th configured metric.
Score(m, model, subjects) ==
    m * Cardinality({s \in Range(subjects) : Predict(model, s) = data[s]})

\* str() of a float and of an int cell value.
FloatStr(v) == ToString(v) \o ".0"
IntStr(v) == ToString(v)

\* str(self.classes[i])
ClassStr(cls, i) == IF cls.float THEN FloatStr(cls.vals[i]) ELSE IntStr(cls.vals[i])

\* ------------------------------------------------ Raw Prediction Ledger
\* _init_raw_preds_df: pd.DataFrame(index=subjects), no column yet.
init_raw_preds_df(subjects) == [index |-> subjects, cols |-> <<>>]

\* The rows df.loc[subjects] selects: every row whose label is requested.
LocRows(df, subjects) == {p \in 1..Len(df.index) : df.index[p] \in Range(subjects)}

\* df.loc[subjects, col] = array: the labels must all exist, and the rows
\* they select must be as many as the values (a label that occurs twice in
\* the index selects two rows, and the assignment raises ValueError).
LocOk(df, subjects) ==
    /\ Range(subjects) \subseteq Range(df.index)
    /\ Cardinality(LocRows(df, subjects)) = Len(subjects)

\* Mutant of LocSet: a cell that already holds a value keeps it.
LocSet_keep_written(df, subjects, col, vals) ==
    LET old(p) == IF col \in DOMAIN df.cols THEN df.cols[col][p] ELSE NaN
        new == [p \in 1..Len(df.index) |->
                    IF p \in LocRows(df, subjects) /\ old(p) = NaN
                    THEN vals[df.index[p]] ELSE old(p)]
    IN [df EXCEPT !.cols = (col :> new) @@ df.cols]

\* df.loc[subjects, col] = vals: creates the column (all NaN) when it is new
\* and overwrites the selected rows.
LocSet(df, subjects, col, vals) ==
    LET old(p) == IF col \in DOMAIN df.cols THEN df.cols[col][p] ELSE NaN
        new == [p \in 1..Len(df.index) |->
                    IF p \in LocRows(df, subjects) THEN vals[df.index[p]] ELSE old(p)]
    IN [df EXCEPT !.cols = (col :> new) @@ df.cols]

\* The assignments of _add_raw_preds applied in program order; the first
\* one that raises ends the method and leaves the earlier ones in place.
RECURSIVE ApplyWrites(_, _, _)
ApplyWrites(df, subjects, ws) ==
    IF ws = <<>> THEN [err |-> "none", df |-> df]
    ELSE LET w == Head(ws)
         IN IF w.kind = "IndexError" THEN [err |-> "IndexError", df |-> df]
            ELSE IF ~w.scalar /\ ~LocOk(df, subjects)
                 THEN [err |-> "ValueError", df |-> df]
            ELSE ApplyWrites(LocSet(df, subjects, w.col, w.vals), subjects, Tail(ws))

\* The 'test' sentinel of fold_ind is None here; an integer fold k is Some(k).
FoldTest == None

\* Mutant of FoldStr: the fold number without the + 1.
FoldStr_zero_based(fold, n) ==
    IF IsNone(fold) THEN "test" ELSE IntStr(Val(fold) % n)

\* Mutant of RepeatStr: the repeat label computed with % instead of //.
RepeatStr_mod(fold, n) == IF IsNone(fold) THEN "" ELSE IntStr((Val(fold) % n) + 1)

\* fold and repeat labels (lines 657-662)
FoldStr(fold, n) == IF IsNone(fold) THEN "test" ELSE IntStr((Val(fold) % n) + 1)
RepeatStr(fold, n) == IF IsNone(fold) THEN "" ELSE IntStr((Val(fold) \div n) + 1)

\* The values that occur in y_test: one target value per subject, or the
\* values of all the target columns when y_test is 2-D.
TargetValues(subjects) ==
    IF n_targets = 0 THEN {data[s] : s \in Range(subjects)}
    ELSE {multi_data(s, t) : s \in Range(subjects), t \in 1..n_targets}

\* Mutant of ClassesOf: no fallback for a single class.
ClassesOf_no_fallback(subjects) ==
    [vals |-> SortedSeq(TargetValues(subjects)), float |-> TRUE]

\* self.classes (lines 664-669): np.unique(y_test), replaced by [0, 1] when
\* a single class is present.
ClassesOf(subjects) ==
    LET u == SortedSeq(TargetValues(subjects))
    IN IF Len(u) = 1 THEN [vals |-> <<0, 1>>, float |-> FALSE]
       ELSE [vals |-> u, float |-> TRUE]

\* The name of the ground-truth column (self.ps.target, a single key).
target == "target"

\* self.ps.target[i - 1] when ps.target is a list of keys.
target_key(i) == "target_" \o IntStr(i)

Write(col, vals) == [kind |-> "write", col |-> col, vals |-> vals, scalar |-> FALSE]
WriteScalar(col, v) ==
    [kind |-> "write", col |-> col, vals |-> [s \in Subjects |-> v], scalar |-> TRUE]
RaiseIndexError ==
    [kind |-> "IndexError", col |-> "", vals |-> [s \in Subjects |-> NaN], scalar |-> FALSE]

\* One column per entry i of 1..width, named after self.classes[i]; the
\* lookup self.classes[i] raises IndexError past the end of self.classes.
class_cols(cls, width, pred_col, vals) ==
    [i \in 1..width |->
        IF i > Len(cls.vals) THEN RaiseIndexError
        ELSE Write(pred_col \o "_class_" \o ClassStr(cls, i),
                   [s \in Subjects |-> FloatStr(vals[s, i])])]

\* Lines 671-693: the probability columns. A 3-D output gives one column
\* per entry (target), the positive-class probability; a 2-D output one
\* column per class column; any other rank is assigned whole to the column
\* '<prefix><repeat>_prob'; an estimator without predict_proba (the
\* AttributeError) gives none.
proba_writes(cls, model, pred_col) ==
    IF ~has_proba THEN <<>>
    ELSE IF proba_ndim = 3
         THEN class_cols(cls, n_targets, pred_col,
                         [s \in Subjects, i \in 1..n_targets |->
                             PredictOut(model, s, i)])
    ELSE IF proba_ndim = 2
         THEN class_cols(cls, Len(model.classes_), pred_col,
                         [s \in Subjects, i \in 1..Len(model.classes_) |->
                             PredictProba(model, s, i)])
    ELSE << Write(pred_col, [s \in Subjects |-> FloatStr(PredictProbaFlat(model, s))]) >>

\* Lines 695-705: the point predictions, one column per output column when
\* the prediction is 2-D, the column '<prefix><repeat>' otherwise.
point_writes(cls, model, pred_col) ==
    IF n_targets >= 1
    THEN class_cols(cls, n_targets, pred_col,
                    [s \in Subjects, i \in 1..n_targets |-> PredictOut(model, s, i)])
    ELSE << Write(pred_col, [s \in Subjects |-> FloatStr(Predict(model, s))]) >>

\* Lines 709-721: the copy of the true values, one column per target key.
truth_writes ==
    IF n_targets >= 1
    THEN [i \in 1..n_targets |->
             Write(target_key(i), [s \in Subjects |-> FloatStr(multi_data(s, i))])]
    ELSE << Write(target, [s \in Subjects |-> FloatStr(data[s])]) >>

\* The assignments of _add_raw_preds, in program order (lines 671-721):
\* the probability columns, the point predictions, the fold tag, the
\* ground truth.
raw_pred_writes(cls, model, eval_type, fold, n) ==
    proba_writes(cls, model, eval_type \o RepeatStr(fold, n) \o "_prob")
    \o point_writes(cls, model, eval_type \o RepeatStr(fold, n))
    \o << WriteScalar(eval_type \o RepeatStr(fold, n) \o "_fold", FoldStr(fold, n)) >>
    \o truth_writes

\* The state a fold's steps thread through: the error raised so far, the
\* ledger, self.Model, self.classes and the two score vectors.
Outcome(e, df, model, cls, train_scores, scores) ==
    [err |-> e, raw_preds_df |-> df, Model |-> model, classes |-> cls,
     train_scores |-> train_scores, scores |-> scores,
     flags |-> flags, imp_log |-> imp_log, search_cv |-> search_cv,
     data_table |-> data_table, fit_X |-> fit_X]

\* The fold state after _add_raw_preds set self.classes and its assignments
\* ran with the result w.
wrote(st, cls, w) ==
    [st EXCEPT !.err = w.err, !.raw_preds_df = w.df, !.classes = cls]

\* Mutant of add_raw_preds: the assignments select every row of the ledger
\* instead of the split's subjects.
add_raw_preds_all_rows(st, subjects, eval_type, fold, n) ==
    IF subjects = <<>>
    THEN [st EXCEPT !.err = "ValueError", !.classes = ClassesOf(subjects)]
    ELSE wrote(st, ClassesOf(subjects),
               ApplyWrites(st.raw_preds_df, st.raw_preds_df.index,
                           raw_pred_writes(ClassesOf(subjects), st.Model, eval_type,
                                           fold, n)))

\* _add_raw_preds(X_test, y_test, subjects, eval_type, fold_ind): sets
\* self.classes, then predicts (the estimator rejects an empty X) and
\* writes the ledger.
add_raw_preds(st, subjects, eval_type, fold, n) ==
    IF subjects = <<>>
    THEN [st EXCEPT !.err = "ValueError", !.classes = ClassesOf(subjects)]
    ELSE wrote(st, ClassesOf(subjects),
               ApplyWrites(st.raw_preds_df, subjects,
                           raw_pred_writes(ClassesOf(subjects), st.Model, eval_type,
                                           fold, n)))

\* Mutant of metric_scores: only the first configured metric is scored.
metric_scores_first_only(st, subjects, side, metric_fails) ==
    IF st.err # "none" THEN st
    ELSE IF metric_fails THEN [st EXCEPT !.err = "MetricError"]
    ELSE [st EXCEPT ![side] = <<Score(1, st.Model, subjects)>>]

\* Mutant of metric_scores: the metrics are scored in reverse order.
metric_scores_reversed(st, subjects, side, metric_fails) ==
    IF st.err # "none" THEN st
    ELSE IF metric_fails THEN [st EXCEPT !.err = "MetricError"]
    ELSE [st EXCEPT
            ![side] = [m \in 1..n_metrics |->
                          Score(n_metrics + 1 - m, st.Model, subjects)]]

\* Lines 649-653: the scores of the configured metrics, in order, stored
\* as the train-side or the test-side vector of the fold.
metric_scores(st, subjects, side, metric_fails) ==
    IF st.err # "none" THEN st
    ELSE IF metric_fails THEN [st EXCEPT !.err = "MetricError"]
    ELSE [st EXCEPT
            ![side] = [m \in 1..n_metrics |-> Score(m, st.Model, subjects)]]

\* _get_scores(test_data, eval_type, fold_ind): records the raw predictions,
\* then scores every configured metric.
get_scores(st, subjects, eval_type, side, fold, n, metric_fails) ==
    metric_scores(add_raw_preds(st, subjects, eval_type, fold, n), subjects, side,
                  metric_fails)

\* --------------------------------------------------- per-fold lifecycle
\* Mutant of test_init_df: no Test call initialises the ledger.
test_init_df_never(train, test, fold) == raw_preds_df

\* Mutant of test_init_df: every Test call initialises the ledger.
test_init_df_always(train, test, fold) ==
    IF compute_train_score
    THEN init_raw_preds_df(train \o test)
    ELSE init_raw_preds_df(test)

\* Lines 324-331: a direct Test call initialises the ledger, over train and
\* test subjects concatenated when train scores are computed.
test_init_df(train, test, fold) ==
    IF IsNone(fold)
    THEN IF compute_train_score
         THEN init_raw_preds_df(train \o test)
         ELSE init_raw_preds_df(test)
    ELSE raw_preds_df

\* _get_final_model: with a search configured the base pipeline is wrapped;
\* without one, line 382 reads weight_search_metric, which only the search
\* branch assigns, and Python raises UnboundLocalError.
get_final_model(st, train) ==
    IF is_search
    THEN [st EXCEPT !.Model = [state |-> "built", fit_on |-> {}, classes_ |-> <<>>],
                    !.search_cv = get_search_cv(train)]
    ELSE [st EXCEPT !.err = "UnboundLocalError"]

\* Mutant of get_X_y: X is a view on the caller's table.
get_X_y_view(table, subjects) ==
    [X |-> [p \in 1..Len(subjects) |-> table[subjects[p]]], view |-> TRUE]

\* The X that _get_X_y makes of the rows of a split: Test slices
\* data[self.all_keys] and data.loc[subjects] (lines 322-335), _get_X_y
\* drops the target column and builds np.array(X).astype(float) (lines
\* 556-562); every step allocates, so X shares no memory with the table.
get_X_y(table, subjects) ==
    [X |-> [p \in 1..Len(subjects) |-> table[subjects[p]]], view |-> FALSE]

\* What Model.fit leaves in the X it received: an estimator that works in
\* place overwrites it (here with zeros).
after_fit(X) == IF fit_in_place THEN [p \in DOMAIN X |-> 0] ELSE X

\* The caller's table after fit worked on xy: untouched unless X is a view
\* on its rows.
table_after_fit(table, subjects, xy) ==
    IF xy.view
    THEN [s \in Subjects |->
             IF s \in Range(subjects) THEN after_fit(xy.X)[Min(LocPos(subjects, s))]
             ELSE table[s]]
    ELSE table

\* _train_model: self.Model.fit(X, y); the estimator may raise, and it
\* rejects an empty training set.
train_model(st, train, fit_fails) ==
    IF st.err # "none" THEN st
    ELSE IF fit_fails \/ train = <<>> THEN [st EXCEPT !.err = "FitFailure"]
    ELSE [st EXCEPT !.Model = Fitted(train),
                    !.fit_X = after_fit(get_X_y(st.data_table, train).X),
                    !.data_table = table_after_fit(st.data_table, train,
                                                   get_X_y(st.data_table, train))]

\* One call on the i-th importance object.
ImpCall(i, name, fold) == [method |-> i, call |-> name, fold |-> fold]

\* _set_model_flags: a flag is set when the fitted base model exposes the
\* attribute, and is left as it was otherwise.
set_model_flags(fl) ==
    [linear |-> fl.linear \/ model_kind = "linear",
     tree |-> fl.tree \/ model_kind = "tree"]

\* Lines 456-484 for one importance object: the global snapshot at fold 0
\* or 'test', the local accumulator at 'test' or at the first fold of a
\* repeat.
imp_init_calls(i, fold, n) ==
    (IF IsNone(fold) THEN <<ImpCall(i, "init_global", fold)>>
     ELSE IF Val(fold) = 0 THEN <<ImpCall(i, "init_global", fold)>>
     ELSE <<>>)
    \o (IF IsNone(fold) THEN <<ImpCall(i, "init_local", fold)>>
        ELSE IF Val(fold) % n = 0 THEN <<ImpCall(i, "init_local", fold)>>
        ELSE <<>>)

\* _proc_feat_importance: returns at once when the engine has no importance
\* object (lines 446-449). Otherwise the flags are set and the loop starts
\* on the first object; line 516 reads self.metric, which nothing assigns
\* (the constructor sets self.metrics), so the loop ends there with
\* AttributeError, before proc_importances and proc_local (lines 515-523).
proc_feat_importance(st, fold, n) ==
    IF st.err # "none" THEN st
    ELSE IF Len(feat_importances) = 0 THEN st
    ELSE [st EXCEPT !.flags = set_model_flags(st.flags),
                    !.imp_log = st.imp_log \o imp_init_calls(feat_importances[1], fold, n),
                    !.err = "AttributeError"]

\* The external failures a fold can meet.
Failures == {"none", "fit", "train_metric", "test_metric"}

\* Mutant of train_side: train-side scoring and recording only in the
\* final Test call.
train_side_test_only(st, train, fold, n, fail) ==
    IF st.err # "none" THEN st
    ELSE IF ~compute_train_score \/ ~IsNone(fold)
         THEN [st EXCEPT !.train_scores = 0]
    ELSE get_scores(st, train, "train_", "train_scores", fold, n,
                    fail = "train_metric")

\* Lines 349-353: the train-side scores, 0 when they are not computed.
train_side(st, train, fold, n, fail) ==
    IF st.err # "none" THEN st
    ELSE IF ~compute_train_score THEN [st EXCEPT !.train_scores = 0]
    ELSE get_scores(st, train, "train_", "train_scores", fold, n,
                    fail = "train_metric")

\* Line 355: the test-side scores.
test_side(st, test, fold, n, fail) ==
    IF st.err # "none" THEN st
    ELSE get_scores(st, test, "", "scores", fold, n, fail = "test_metric")

\* Test(data, train_subjects, test_subjects, fold_ind) after the subject
\* restriction: train and test are the restricted arrays.
Test(train, test, fold, fail) ==
    test_side(
        train_side(
            proc_feat_importance(
                train_model(
                    get_final_model(
                        Outcome("none", test_init_df(train, test, fold), Model,
                                classes, 0, <<>>),
                        train),
                    train, fail = "fit"),
                fold, n_splits_),
            train, fold, n_splits_, fail),
        test, fold, n_splits_, fail)

\* ---------------------------------------------------------------- actions
\* The values Evaluate and Test return.
EvaluateResult(train_scores, scores, df) ==
    [train_scores |-> train_scores, scores |-> scores, raw_preds_df |-> df,
     feat_importances |-> feat_importances]

\* Lines 357-362: what Test returns: with the 'test' sentinel the scores,
\* the ledger and the importance objects, with an integer fold index the
\* two score values only.
test_return(st, fold) ==
    IF IsNone(fold)
    THEN EvaluateResult(st.train_scores, st.scores, st.raw_preds_df)
    ELSE [train_scores |-> st.train_scores, scores |-> st.scores]

\* Lines 259-261: set_final_local on every importance object, after the
\* last fold.
set_final_local ==
    [i \in 1..Len(feat_importances) |->
        ImpCall(feat_importances[i], "set_final_local", None)]

\* Mutant of returned: a failing fold ends the loop and the scores
\* gathered so far are returned.
returned_partial(e, last, train_scores, scores, df) ==
    IF e = "none" /\ ~last THEN None
    ELSE Some(EvaluateResult(train_scores, scores, df))

\* What the caller receives when a fold ended with error e: an exception
\* leaves Evaluate's loop and the call at once, so nothing is returned
\* unless every fold completed (lines 265-267).
returned(e, last, train_scores, scores, df) ==
    IF e = "none" /\ last THEN Some(EvaluateResult(train_scores, scores, df))
    ELSE None

\* A second run must repeat the first run's call.
SameCall(o, a) ==
    IF IsNone(first) THEN TRUE ELSE Val(first).op = o /\ Val(first).args = a

\* Evaluate, lines 184-205: restrict the subjects, initialise the ledger,
\* fetch the splits, reset the loop's locals.
CallEvaluate(train_subjects, splits, n_repeats, splits_vals) ==
    /\ pc = "idle"
    /\ LET a == [train_subjects |-> train_subjects, test_subjects |-> {},
                 splits |-> splits, n_repeats |-> n_repeats,
                 splits_vals |-> splits_vals]
       IN /\ SameCall("Evaluate", a)
          /\ args' = a
    /\ op' = "Evaluate"
    /\ LET restricted == get_subjects_overlap(train_subjects)
       IN /\ raw_preds_df' = init_raw_preds_df(restricted)
          /\ n_splits_' = eval_n_splits(restricted, splits, splits_vals)
          /\ IF eval_splits_valid(restricted, splits, splits_vals)
             THEN /\ subject_splits' =
                        get_eval_splits(restricted, splits, n_repeats, splits_vals)
                  /\ pc' = "loop"
                  /\ err' = "none"
             ELSE /\ subject_splits' = <<>>
                  /\ pc' = "raised"
                  /\ err' = "ConfigurationError"
    /\ fold_ind' = 0
    /\ all_train_scores' = <<>>
    /\ all_scores' = <<>>
    /\ n_test_per_fold' = <<>>
    /\ ret' = None
    /\ fold_ret' = None
    /\ UNCHANGED <<config, Model, classes, hash_seed, first, scopes_obj,
                   importances, search_cv, data_table, fit_X>>

\* One iteration of Evaluate's loop (lines 208-248), and after the last
\* fold the rest of Evaluate (lines 250-267).
EvaluateFold ==
    /\ pc = "loop"
    /\ fold_ind < Len(subject_splits)
    /\ LET split == subject_splits[fold_ind + 1]
       IN \E fail \in Failures :
             \E r \in {Test(get_subjects_overlap(Range(split[1])),
                             get_subjects_overlap(Range(split[2])),
                             Some(fold_ind), fail)} :
             LET last == fold_ind + 1 = Len(subject_splits)
             IN /\ n_test_per_fold' = Append(n_test_per_fold, Len(split[2]))
                /\ raw_preds_df' = r.raw_preds_df
                /\ Model' = r.Model
                /\ classes' = r.classes
                /\ err' = r.err
                /\ flags' = r.flags
                /\ imp_log' = IF r.err = "none" /\ last
                              THEN r.imp_log \o set_final_local
                              ELSE r.imp_log
                /\ search_cv' = r.search_cv
                /\ data_table' = r.data_table
                /\ fit_X' = r.fit_X
                /\ fold_ret' = IF r.err = "none"
                               THEN Some(test_return(r, Some(fold_ind)))
                               ELSE None
                /\ IF r.err # "none"
                   THEN /\ pc' = "raised"
                        /\ UNCHANGED <<all_train_scores, all_scores, fold_ind>>
                   ELSE /\ all_train_scores' = Append(all_train_scores, r.train_scores)
                        /\ all_scores' = Append(all_scores, r.scores)
                        /\ fold_ind' = fold_ind + 1
                        /\ pc' = IF last THEN "done" ELSE "loop"
                /\ ret' = returned(r.err, last, all_train_scores', all_scores',
                                   raw_preds_df')
    /\ UNCHANGED <<config, n_splits_, op, args, subject_splits, hash_seed, first,
                   scopes_obj, feat_importances>>

\* A direct Test call, fold_ind = 'test' (lines 317-360).
CallTest(train_subjects, test_subjects) ==
    /\ pc = "idle"
    /\ LET a == [train_subjects |-> train_subjects, test_subjects |-> test_subjects,
                 splits |-> 0, n_repeats |-> 0, splits_vals |-> FALSE]
       IN /\ SameCall("Test", a)
          /\ args' = a
    /\ op' = "Test"
    /\ \E fail \in Failures :
          \E r \in {Test(get_subjects_overlap(train_subjects),
                          get_subjects_overlap(test_subjects), FoldTest, fail)} :
             /\ raw_preds_df' = r.raw_preds_df
             /\ Model' = r.Model
             /\ classes' = r.classes
             /\ err' = r.err
             /\ flags' = r.flags
             /\ imp_log' = r.imp_log
             /\ search_cv' = r.search_cv
             /\ data_table' = r.data_table
             /\ fit_X' = r.fit_X
             /\ fold_ret' = None
             /\ pc' = IF r.err # "none" THEN "raised" ELSE "done"
             /\ ret' = IF r.err = "none" THEN Some(test_return(r, FoldTest))
                       ELSE None
    /\ UNCHANGED <<config, n_splits_, n_test_per_fold, subject_splits, fold_ind,
                   all_train_scores, all_scores, hash_seed, first, scopes_obj,
                   feat_importances>>

\* The arguments callers pass.
TrainArgs == {S \in SUBSET Subjects : Cardinality(S) >= MaxSubj - 1}

Next ==
    \/ \E S \in TrainArgs, k \in 2..MaxSplits, n \in 1..MaxRepeats, g \in BOOLEAN :
          CallEvaluate(S, k, n, g)
    \/ EvaluateFold
    \/ \E S \in TrainArgs, T \in SUBSET Subjects : CallTest(S, T)

Spec == Init /\ [][Next]_vars

\* The same script run a second time: a fresh Python process constructs the
\* engine again with the same configuration and repeats the call; the
\* first run's call and result are kept for comparison.
RunAgain ==
    /\ pc = "done"
    /\ IsNone(first)
    /\ first' = Some([op |-> op, args |-> args, ret |-> Val(ret)])
    /\ hash_seed' \in HashSeeds
    /\ raw_preds_df' = EmptyDf
    /\ n_splits_' = 0
    /\ Model' = NoModel
    /\ classes' = NoClasses
    /\ n_test_per_fold' = <<>>
    /\ pc' = "idle"
    /\ op' = "none"
    /\ args' = NoArgs
    /\ subject_splits' = <<>>
    /\ fold_ind' = 0
    /\ all_train_scores' = <<>>
    /\ all_scores' = <<>>
    /\ ret' = None
    /\ err' = "none"
    /\ flags' = DefaultFlags
    /\ imp_log' = <<>>
    /\ search_cv' = NoSearchCv
    /\ fit_X' = <<>>
    /\ fold_ret' = None
    /\ UNCHANGED <<config, scopes_obj, feat_importances, data_table>>

InitReplay ==
    /\ Init
    /\ is_search
    /\ n_metrics = 1
    /\ final_subjects \in {None, Some(2..MaxSubj)}

NextReplay == Next \/ RunAgain

SpecReplay == InitReplay /\ [][NextReplay]_vars

\* The engine over the output shapes _add_raw_preds distinguishes: a single
\* target key (1-D predictions, 2-D or 1-D probabilities) or a list of
\* target keys with a multi-output estimator (2-D predictions, 3-D or 1-D
\* probabilities), with a search configured and one metric.
InitShapes ==
    /\ final_subjects \in {None, Some(1..(MaxSubj - 1))}
    /\ compute_train_score \in BOOLEAN
    /\ is_search = TRUE
    /\ has_proba \in BOOLEAN
    /\ n_metrics = 1
    /\ n_targets \in 0..MaxTargets
    /\ proba_ndim \in IF ~has_proba THEN {2}
                      ELSE IF n_targets = 0 THEN {1, 2} ELSE {1, 3}
    /\ PlainSetup
    /\ Constructed
    /\ hash_seed \in HashSeeds
    /\ first = None
    /\ NoScopes

SpecShapes == InitShapes /\ [][Next]_vars

\* ------------------------------------------------------------ Scopes.py
\* helpers.VARS.SCOPES: the scope names get_keys_from_scope has a branch for.
SCOPES == {"float", "data", "data files", "float covars", "fc", "all", "n",
           "cat", "categorical", "covars"}

\* The column names of the Data Table, in a fixed order; the order only
\* serves to enumerate a set of keys.
KeyUniverse == <<"roi_a", "roi_b", "age", "sex", "sex_strat", "dx_1", "dx_2">>

KeyIndex(k) == CHOOSE i \in 1..Len(KeyUniverse) : KeyUniverse[i] = k

\* list(set(keys)), line 104, in a process with hash seed h.
EnumerateKeys(S, h) ==
    LET q == Enumerate({KeyIndex(k) : k \in S}, h)
    IN [i \in 1..Len(q) |-> KeyUniverse[q[i]]]

\* The Python test 'r in a' on two str: r is a substring of a.
Contains(a, r) ==
    \E i \in 1..(Len(a) - Len(r) + 1) : SubSeq(a, i, i + Len(r) - 1) = r

\* helpers.ML_Helpers.conv_to_list: a str becomes a one-element list.
conv_to_list(x) == x.items

\* keys.remove(key) inside try / except ValueError: the first occurrence of
\* key is taken out, and nothing happens when there is none.
Remove(keys, key) ==
    IF key \notin Range(keys) THEN keys
    ELSE LET i == Min({j \in 1..Len(keys) : keys[j] = key})
         IN SubSeq(keys, 1, i - 1) \o SubSeq(keys, i + 1, Len(keys))

\* Mutant of remove_keys_at_end: the strat and target keys stay.
remove_keys_at_end_skipped(keys, ends) == keys

\* Lines 106-112: every key of keys_at_end is removed once.
RECURSIVE remove_keys_at_end(_, _)
remove_keys_at_end(keys, ends) ==
    IF ends = <<>> THEN keys
    ELSE remove_keys_at_end(Remove(keys, Head(ends)), Tail(ends))

\* Lines 50-77: the keys of a named scope, full being self.all_keys.
named_keys(scope, full) ==
    IF scope = "float"
    THEN SelectSeq(full, LAMBDA k : k \notin Range(cat_keys))
    ELSE IF scope = "data" THEN data_keys
    ELSE IF scope = "data files" THEN data_file_keys
    ELSE IF scope \in {"float covars", "fc"}
    THEN SelectSeq(full, LAMBDA k : k \notin Range(cat_keys)
                                      /\ k \notin Range(data_keys))
    ELSE IF scope \in {"all", "n"} THEN full
    ELSE IF scope \in {"cat", "categorical"} THEN cat_keys
    ELSE covars_keys

\* Lines 84-97: the keys the entries of a list scope add, in list order: a
\* scope name adds its resolved keys, a column name itself, a stub nothing.
RECURSIVE listed_keys(_, _, _)
listed_keys(items, full, ends) ==
    IF items = <<>> THEN <<>>
    ELSE (IF Head(items) \in SCOPES
          THEN remove_keys_at_end(named_keys(Head(items), full), ends)
          ELSE IF Head(items) \in Range(full) THEN <<Head(items)>>
          ELSE <<>>)
         \o listed_keys(Tail(items), full, ends)

\* Lines 95-97: the entries that are neither scope names nor column names.
restrict_keys(items, full) ==
    SelectSeq(items, LAMBDA k : k \notin SCOPES /\ k \notin Range(full))

\* Lines 99-101: the keys that contain every stub, when there is a stub.
stub_keys(items, full) ==
    IF restrict_keys(items, full) = <<>> THEN <<>>
    ELSE SelectSeq(full, LAMBDA a :
                      \A r \in Range(restrict_keys(items, full)) : Contains(a, r))

\* get_keys_from_scope(scope_obj), full being self.all_keys and ends
\* self.keys_at_end: a str that names a scope takes the first branch, any
\* other scope is read as a list, deduplicated through a set.
get_keys_from_scope(scope, full, ends) ==
    IF scope.is_str /\ scope.items[1] \in SCOPES
    THEN remove_keys_at_end(named_keys(scope.items[1], full), ends)
    ELSE remove_keys_at_end(
             EnumerateKeys(Range(listed_keys(conv_to_list(scope), full, ends)
                                 \o stub_keys(conv_to_list(scope), full)),
                           hash_seed),
             ends)

\* set_all_keys(scope, targets_key). A later call would recompute every
\* attribute from the constructor's fields, so one call per object is
\* followed.
set_all_keys(scope, targets_key) ==
    /\ all_keys = None
    /\ set_args' = [scope |-> scope, targets_key |-> targets_key]
    /\ keys_at_end' = strat_keys \o conv_to_list(targets_key)
    /\ all_keys' = Some(get_keys_from_scope(scope,
                                            data_keys \o covars_keys \o keys_at_end',
                                            keys_at_end')
                        \o keys_at_end')
    /\ num_feat_keys' = Len(Val(all_keys')) - Len(keys_at_end')
    /\ UNCHANGED <<config, engine, frame, hash_seed, first, scopes_fields,
                   importances, fold_data>>

\* The key lists a Scopes object is constructed with: the columns of one
\* table, so no key occurs twice and data, covars, strat and target keys
\* are disjoint; cat_keys are some of the table's keys.
ScopesFields ==
    { [data_keys |-> <<"roi_a", "roi_b">>, covars_keys |-> <<"age", "sex">>,
       cat_keys |-> <<"sex">>, strat_keys |-> <<"sex_strat">>,
       data_file_keys |-> <<>>],
      [data_keys |-> <<"roi_a", "roi_b">>, covars_keys |-> <<"age", "sex">>,
       cat_keys |-> <<"sex", "sex_strat", "dx_1">>, strat_keys |-> <<"sex_strat">>,
       data_file_keys |-> <<>>],
      [data_keys |-> <<"roi_a", "roi_b">>, covars_keys |-> <<>>,
       cat_keys |-> <<>>, strat_keys |-> <<>>,
       data_file_keys |-> <<"roi_b">>],
      [data_keys |-> <<"roi_a">>, covars_keys |-> <<"age">>,
       cat_keys |-> <<>>, strat_keys |-> <<"sex_strat">>,
       data_file_keys |-> <<"roi_a">>] }

\* The entries of the scopes tried: the scope names, column names (a
\* covar, a strat key, a target key) and stubs.
ScopeItems == SCOPES \cup {"age", "sex_strat", "dx_1"} \cup {"roi", "sex"}

\* The sequences over S of length at most n.
SeqsUpTo(S, n) == UNION {[1..m -> S] : m \in 0..n}

\* The scopes tried: one str, or a list of at most MaxScopeLen entries.
ScopeArgs ==
    {Str(x) : x \in ScopeItems} \cup {List(q) : q \in SeqsUpTo(ScopeItems, MaxScopeLen)}

\* The targets tried: one key, or a list of two.
TargetArgs == {Str("dx_1"), List(<<"dx_1", "dx_2">>)}

InitScopes ==
    /\ final_subjects = None
    /\ compute_train_score = FALSE
    /\ is_search = TRUE
    /\ has_proba = FALSE
    /\ n_metrics = 1
    /\ SingleTarget
    /\ PlainSetup
    /\ Constructed
    /\ hash_seed \in HashSeeds
    /\ first = None
    /\ \E f \in ScopesFields :
          /\ data_keys = f.data_keys
          /\ data_file_keys = f.data_file_keys
          /\ cat_keys = f.cat_keys
          /\ strat_keys = f.strat_keys
          /\ covars_keys = f.covars_keys
    /\ ScopesUnset

NextScopes == \E scope \in ScopeArgs, targets_key \in TargetArgs :
                  set_all_keys(scope, targets_key)

SpecScopes == InitScopes /\ [][NextScopes]_vars

\* ================================================================= claims
\* The restriction the engine is specified to apply to a subject set.
Restricted(S) == IF IsNone(final_subjects) THEN S ELSE S \cap Val(final_subjects)

\* Column names that start with the train-side prefix 'train_'.
IsTrainCol(c) == Len(c) >= 6 /\ SubSeq(c, 1, 6) = "train_"

EvaluateDone == pc = "done" /\ op = "Evaluate"
TestDone == pc = "done" /\ op = "Test"

\* C1: a completed Evaluate returns a test_scores array with exactly
\* n_repeats * n_splits rows, in fold order, each row holding exactly
\* n_metrics entries, entry m being the score of the m-th configured metric
\* on that fold's test split.
C1_TestScoresShape ==
    EvaluateDone =>
        LET sc == Val(ret).scores
        IN /\ Len(sc) = args.n_repeats * n_splits_
           /\ (~args.splits_vals => n_splits_ = args.splits)
           /\ \A i \in 1..Len(sc) :
                /\ Len(sc[i]) = n_metrics
                /\ \A m \in 1..n_metrics :
                     sc[i][m] = Score(m, Fitted(subject_splits[i][1]),
                                      subject_splits[i][2])

C1_Witness ==
    /\ EvaluateDone
    /\ n_metrics = 2
    /\ args.n_repeats = 2
    /\ n_splits_ = 3

\* C2: after a completed k-fold Evaluate the ledger's index is exactly the
\* restricted training-subject set, each subject once, and every subject of
\* it is in the test set of exactly one fold of each repeat.
C2_LedgerIndexKFold ==
    (EvaluateDone /\ ~args.splits_vals) =>
        LET idx == raw_preds_df.index
        IN /\ Range(idx) = Restricted(args.train_subjects)
           /\ Len(idx) = Cardinality(Restricted(args.train_subjects))
           /\ \A s \in Range(idx) : \A r \in 0..(args.n_repeats - 1) :
                Cardinality({f \in 1..n_splits_ :
                    s \in Range(subject_splits[r * n_splits_ + f][2])}) = 1

C2_Witness ==
    /\ EvaluateDone
    /\ ~args.splits_vals
    /\ ~IsNone(final_subjects)
    /\ ~(args.train_subjects \subseteq Val(final_subjects))
    /\ args.n_repeats = 2

\* C3: after a direct Test call the ledger's index is the set union of the
\* restricted train and test subjects when train scores are computed, the
\* restricted test subjects otherwise, and no subject occurs in it twice,
\* also when the train and test subjects given overlap (stated for an engine
\* with a search configured, whose model build succeeds).
C3_TestLedgerIndex ==
    (op = "Test" /\ is_search) =>
        LET idx == raw_preds_df.index
            expect == IF compute_train_score
                      THEN Restricted(args.train_subjects)
                               \cup Restricted(args.test_subjects)
                      ELSE Restricted(args.test_subjects)
        IN /\ Range(idx) = expect
           /\ Len(idx) = Cardinality(expect)

\* C4: without a hyper-parameter search the model build of a fold completes
\* without error, so no call ends with the build's UnboundLocalError.
C4_NoSearchBuilds == ~is_search => err # "UnboundLocalError"

\* C5: the subject restriction is the intersection with the final-subject
\* filter, and the identity when the filter is unset; the ledger index, the
\* splits and the subjects a model is fitted on are restricted subjects, and
\* Test restricts its train and its test subjects independently.
C5_Restriction ==
    /\ op = "Evaluate" =>
          /\ Range(raw_preds_df.index) = Restricted(args.train_subjects)
          /\ Model.fit_on \subseteq Restricted(args.train_subjects)
          /\ \A i \in 1..Len(subject_splits) :
                Range(subject_splits[i][1]) \cup Range(subject_splits[i][2])
                    \subseteq Restricted(args.train_subjects)
    /\ op = "Test" =>
          /\ Model.state = "fitted" =>
                Model.fit_on = Restricted(args.train_subjects)
          /\ Range(raw_preds_df.index) =
                IF compute_train_score
                THEN Restricted(args.train_subjects)
                         \cup Restricted(args.test_subjects)
                ELSE Restricted(args.test_subjects)

C5_Witness ==
    /\ TestDone
    /\ ~IsNone(final_subjects)
    /\ ~(args.train_subjects \subseteq Val(final_subjects))
    /\ ~(args.test_subjects \subseteq Val(final_subjects))
    /\ Model.fit_on # Range(raw_preds_df.index)

\* C6: a call that ends with an error returns nothing: the scores of the
\* folds completed before the failing fold never reach the caller.
C6_NoPartialScores == pc = "raised" => IsNone(ret)

C6_Witness ==
    /\ pc = "raised"
    /\ op = "Evaluate"
    /\ Len(all_scores) >= 1
    /\ err = "FitFailure"

\* C7 as stated: train-side raw predictions ('train_' columns) are written
\* only when train scores are computed and the call is the final Test call.
C7_TrainColsOnlyInTest ==
    (\E c \in DOMAIN raw_preds_df.cols : IsTrainCol(c)) =>
        (compute_train_score /\ op = "Test")

\* C7 amended: train-side raw predictions are written exactly when train
\* scores are computed, in the folds of Evaluate as in the final Test call;
\* test-side raw predictions are written in every fold.
C7_TrainColsWhenTrainScores ==
    /\ (\E c \in DOMAIN raw_preds_df.cols : IsTrainCol(c)) => compute_train_score
    /\ (op = "Evaluate" /\ compute_train_score /\ fold_ind >= 1) =>
          "train_1" \in DOMAIN raw_preds_df.cols
    /\ (TestDone /\ compute_train_score) => "train_" \in DOMAIN raw_preds_df.cols
    /\ TestDone => "" \in DOMAIN raw_preds_df.cols
    /\ op = "Evaluate" =>
          \A j \in 1..fold_ind :
             LET c == IntStr(((j - 1) \div n_splits_) + 1)
             IN /\ c \in DOMAIN raw_preds_df.cols
                /\ \A p \in 1..Len(raw_preds_df.index) :
                      raw_preds_df.index[p] \in Range(subject_splits[j][2])
                          => raw_preds_df.cols[c][p] # NaN

C7_Witness ==
    /\ op = "Evaluate"
    /\ compute_train_score
    /\ fold_ind >= 2
    /\ "train_1_fold" \in DOMAIN raw_preds_df.cols

\* C8: after a completed k-fold Evaluate, for every repeat r and every subject
\* of the ledger index the column '<r>_fold' holds the 1-based number of the
\* one fold of repeat r whose test set contains the subject.
C8_FoldTag ==
    (EvaluateDone /\ ~args.splits_vals) =>
        \A r \in 1..args.n_repeats : \A p \in 1..Len(raw_preds_df.index) :
            LET c == IntStr(r) \o "_fold"
                F == {f \in 1..n_splits_ :
                        raw_preds_df.index[p] \in
                            Range(subject_splits[(r - 1) * n_splits_ + f][2])}
            IN /\ c \in DOMAIN raw_preds_df.cols
               /\ \E f \in F : raw_preds_df.cols[c][p] = IntStr(f)

C8_Witness ==
    /\ EvaluateDone
    /\ ~args.splits_vals
    /\ args.n_repeats = 2
    /\ n_splits_ = 3
    /\ Len(raw_preds_df.index) = 3

\* self.classes is the class set the claim gives for the target values of S.
ClassesAre(S) ==
    LET v == {data[s] : s \in S}
    IN IF Cardinality(v) = 1 THEN classes.vals = <<0, 1>>
       ELSE /\ Len(classes.vals) = Cardinality(v)
            /\ Range(classes.vals) = v
            /\ \A i, j \in 1..Len(classes.vals) :
                  i < j => classes.vals[i] < classes.vals[j]

\* C9: when the split recorded last holds one distinct class, the class set
\* used for its ledger columns is 0, 1 (in that order); with two or more
\* distinct values it is the sorted distinct values.
C9_ClassFallback ==
    /\ (op = "Evaluate" /\ fold_ind >= 1 /\ err = "none") =>
          ClassesAre(Range(subject_splits[fold_ind][2]))
    /\ TestDone =>
          /\ ClassesAre(Restricted(args.test_subjects))
          /\ (has_proba /\ Cardinality(Restricted(args.test_subjects)) = 1) =>
                "_prob_class_0" \in DOMAIN raw_preds_df.cols
          /\ (has_proba /\ compute_train_score
                  /\ Cardinality({data[s] : s \in Restricted(args.train_subjects)}) = 1)
                => "train__prob_class_0" \in DOMAIN raw_preds_df.cols

C9_Witness ==
    /\ TestDone
    /\ has_proba
    /\ Cardinality(Restricted(args.test_subjects)) = 1
    /\ classes.vals = <<0, 1>>
    /\ Restricted(args.test_subjects) = {2}

\* C10: two runs of Evaluate with the same seed, data and configuration
\* return identical score arrays and identical ledgers.
C10_Deterministic ==
    (EvaluateDone /\ ~IsNone(first)) => Val(ret) = Val(first).ret

\* The final-subject filter excludes every subject passed to the call.
AllExcluded ==
    /\ op # "none"
    /\ ~IsNone(final_subjects)
    /\ Restricted(args.train_subjects \cup args.test_subjects) = {}

\* C11: when the final-subject filter excludes every subject passed to
\* Test, the call completes without raising and returns its result, with an
\* empty ledger (stated for Test on an engine with a search configured, whose
\* model build succeeds; Evaluate hands the same empty arrays to the split
\* generator).
C11_EmptyFilterCompletes ==
    (AllExcluded /\ is_search /\ op = "Test") =>
        /\ pc = "done"
        /\ err = "none"
        /\ ~IsNone(ret)
        /\ raw_preds_df = EmptyDf

\* The folds of repeat r (0-based) in subject_splits.
FoldsOf(r) == {r * n_splits_ + f : f \in 1..n_splits_}

\* C12: repeated k-fold splitting of N subjects yields n_repeats * n_splits
\* folds; in every fold the train and test sets are disjoint and their union
\* is the full subject set; within each repeat the test sets are pairwise
\* disjoint and contain every subject exactly once.
C12_KFoldPartition ==
    (op = "Evaluate" /\ ~args.splits_vals /\ err # "ConfigurationError") =>
        LET all == Restricted(args.train_subjects)
        IN /\ n_splits_ = args.splits
           /\ Len(subject_splits) = args.n_repeats * args.splits
           /\ \A i \in 1..Len(subject_splits) :
                LET tr == subject_splits[i][1]
                    te == subject_splits[i][2]
                IN /\ Range(tr) \cap Range(te) = {}
                   /\ Range(tr) \cup Range(te) = all
                   /\ Len(tr) + Len(te) = Cardinality(all)
           /\ \A r \in 0..(args.n_repeats - 1) :
                /\ \A i, j \in FoldsOf(r) :
                      i # j => Range(subject_splits[i][2])
                                   \cap Range(subject_splits[j][2]) = {}
                /\ \A s \in all :
                      Cardinality({i \in FoldsOf(r) :
                                      s \in Range(subject_splits[i][2])}) = 1

C12_Witness ==
    /\ op = "Evaluate"
    /\ ~args.splits_vals
    /\ pc = "loop"
    /\ args.n_repeats = 2
    /\ args.splits = 2
    /\ Cardinality(Restricted(args.train_subjects)) = 3

\* C13: in leave-one-group-out mode n_splits_ is the number of distinct
\* group labels among the restricted subjects, and in every repeat fold g
\* tests exactly the subjects whose label is the g-th group (labels
\* A, A, B, B, C give 3 folds, each holding out one whole group).
C13_LeaveOneGroupOut ==
    /\ (op = "Evaluate" /\ args.splits_vals) =>
          LET all == Restricted(args.train_subjects)
              labels == {group_labels[s] : s \in all}
          IN /\ n_splits_ = Cardinality(labels)
             /\ err # "ConfigurationError" =>
                   /\ Len(subject_splits) = args.n_repeats * n_splits_
                   /\ \A r \in 0..(args.n_repeats - 1) : \A g \in 1..n_splits_ :
                         LET split == subject_splits[r * n_splits_ + g]
                             held == {s \in all :
                                        group_labels[s] = SortedSeq(labels)[g]}
                         IN /\ Range(split[2]) = held
                            /\ Range(split[1]) = all \ held
                            /\ Len(split[2]) = Cardinality(held)
    /\ LET example == repeated_leave_one_group_out(<<1, 2, 3, 4, 5>>, 1,
                                                   <<1, 1, 2, 2, 3>>)
       IN /\ Len(example) = 3
          /\ Range(example[1][2]) = {1, 2}
          /\ Range(example[2][2]) = {3, 4}
          /\ Range(example[3][2]) = {5}

C13_Witness ==
    /\ EvaluateDone
    /\ args.splits_vals
    /\ args.n_repeats = 2
    /\ n_splits_ = 2
    /\ args.splits = 3
    /\ Range(subject_splits[1][2]) = {1, 2}

\* The score vector of the configured metrics for a model fitted on the
\* subjects fit and scored on the subjects S.
ScoresOf(fit, S) ==
    [m \in 1..n_metrics |-> Score(m, Fitted(SortedSeq(fit)), SortedSeq(S))]

\* C15: in every fold of Evaluate and in Test the test-side score vector has
\* one entry per configured metric, in the configured order, and so has the
\* train-side score vector when train-side scoring is enabled.
C15_ScoreVectorLength ==
    /\ op = "Evaluate" =>
          /\ Len(all_train_scores) = Len(all_scores)
          /\ \A i \in 1..Len(all_scores) :
                LET tr == Range(subject_splits[i][1])
                    te == Range(subject_splits[i][2])
                IN /\ Len(all_scores[i]) = n_metrics
                   /\ all_scores[i] = ScoresOf(tr, te)
                   /\ IF compute_train_score
                      THEN /\ Len(all_train_scores[i]) = n_metrics
                           /\ all_train_scores[i] = ScoresOf(tr, tr)
                      ELSE all_train_scores[i] = 0
    /\ TestDone =>
          LET tr == Restricted(args.train_subjects)
              te == Restricted(args.test_subjects)
          IN /\ Len(Val(ret).scores) = n_metrics
             /\ Val(ret).scores = ScoresOf(tr, te)
             /\ IF compute_train_score
                THEN /\ Len(Val(ret).train_scores) = n_metrics
                     /\ Val(ret).train_scores = ScoresOf(tr, tr)
                ELSE Val(ret).train_scores = 0

C15_Witness ==
    /\ TestDone
    /\ compute_train_score
    /\ n_metrics = 2
    /\ Val(ret).train_scores[1] # Val(ret).train_scores[2]
    /\ Len(Val(ret).scores) = 2

\* The repeat and fold labels of the k-th yielded fold (k = 0, 1, ...).
RepeatOf(k) == (k \div n_splits_) + 1
FoldOf(k) == (k % n_splits_) + 1

\* The ledger's fold tag of repeat rep for the subject s: NaN when the column
\* does not exist or the cell was never written.
FoldTagOf(rep, s) ==
    LET c == IntStr(rep) \o "_fold"
    IN IF c \notin DOMAIN raw_preds_df.cols THEN {NaN}
       ELSE {raw_preds_df.cols[c][p] :
                p \in {q \in 1..Len(raw_preds_df.index) : raw_preds_df.index[q] = s}}

\* C16: Evaluate gives the k-th yielded fold the fold index k; the labels
\* repeat = k div n_splits + 1 and fold = k mod n_splits + 1 stay within
\* 1..n_repeats and 1..n_splits and no two folds share a pair; the score
\* vectors are appended and the ledger is written in fold order: after
\* fold_ind folds the i-th score vector is that of the i-th split, the test
\* subjects of the first fold_ind splits carry their fold tag and those of
\* the later splits carry none.
C16_FoldOrder ==
    (op = "Evaluate" /\ err # "ConfigurationError") =>
        LET K == Len(subject_splits)
        IN /\ fold_ind = Len(all_scores)
           /\ fold_ind <= K
           /\ Len(n_test_per_fold) \in {fold_ind, fold_ind + 1}
           /\ \A i \in 1..Len(n_test_per_fold) :
                 n_test_per_fold[i] = Len(subject_splits[i][2])
           /\ \A k \in 0..(K - 1) :
                 /\ RepeatOf(k) \in 1..args.n_repeats
                 /\ FoldOf(k) \in 1..n_splits_
                 /\ \A j \in 0..(K - 1) :
                       j # k => <<RepeatOf(j), FoldOf(j)>> # <<RepeatOf(k), FoldOf(k)>>
           /\ \A i \in 1..Len(all_scores) :
                 all_scores[i] = ScoresOf(Range(subject_splits[i][1]),
                                          Range(subject_splits[i][2]))
           /\ \A k \in 0..(K - 1) : \A s \in Range(subject_splits[k + 1][2]) :
                 IF k < fold_ind
                 THEN FoldTagOf(RepeatOf(k), s) = {IntStr(FoldOf(k))}
                 ELSE (k > fold_ind \/ pc = "loop") =>
                          FoldTagOf(RepeatOf(k), s) = {NaN}

C16_Witness ==
    /\ op = "Evaluate"
    /\ pc = "loop"
    /\ args.n_repeats = 2
    /\ n_splits_ = 3
    /\ fold_ind = 4

\* C17: the ledger is not modified for a split before that split's metric
\* scores are computed, so a call that a metric failure ended has no raw
\* prediction of the test split in the ledger: no test-side column after
\* Test, no fold tag for the failing fold's test subjects in Evaluate.
C17_RecordAfterScoring ==
    /\ (op = "Test" /\ err = "MetricError") => "" \notin DOMAIN raw_preds_df.cols
    /\ (op = "Evaluate" /\ err = "MetricError") =>
          \A s \in Range(subject_splits[fold_ind + 1][2]) :
             FoldTagOf(RepeatOf(fold_ind), s) = {NaN}

\* Column names that start with the prefix pre.
HasPrefix(c, pre) == Len(c) >= Len(pre) /\ SubSeq(c, 1, Len(pre)) = pre

\* The ledger's columns whose name starts with pre.
ColsWith(pre) == {c \in DOMAIN raw_preds_df.cols : HasPrefix(c, pre)}

\* A direct Test call without train-side scoring got as far as recording its
\* test split: the model was built and fitted on a non-empty training set
\* and the test split is not empty.
TestRecorded ==
    /\ op = "Test"
    /\ ~compute_train_score
    /\ Model.state = "fitted"
    /\ Restricted(args.test_subjects) # {}

\* C18: when the probability output has a rank outside 2 and 3 (a 1-D
\* array), recording fails with ShapeMismatch and no probability column is
\* written to the ledger.
C18_ProbaRankRejected ==
    (TestRecorded /\ has_proba /\ proba_ndim = 1) =>
        /\ err = "ShapeMismatch"
        /\ ColsWith("_prob") = {}

\* C19: a 3-D probability output over T targets gives exactly T probability
\* columns, a 2-D output with C class columns exactly C, whatever the number
\* of distinct values in the split's ground truth.
C19_ProbaColumns ==
    (TestRecorded /\ has_proba /\ proba_ndim \in {2, 3}) =>
        Cardinality(ColsWith("_prob_class_")) =
            IF proba_ndim = 3 THEN n_targets ELSE Len(Model.classes_)

\* C20: point predictions and the fold tag are recorded for every recorded
\* split, with or without predict_proba: a 1-D prediction in the column
\* '<prefix><repeat>', a 2-D prediction with D columns in exactly D columns.
C20_PointPredictions ==
    (TestRecorded /\ ~has_proba) =>
        /\ "_fold" \in DOMAIN raw_preds_df.cols
        /\ IF n_targets = 0 THEN "" \in DOMAIN raw_preds_df.cols
           ELSE Cardinality(ColsWith("_class_")) = n_targets

\* C14: for every scope (a scope name, a column name, a stub or a list mixing
\* them) the resolved all_keys holds no key twice, its feature part (the
\* first num_feat_keys entries) holds no strat key and no target key, and
\* the strat keys followed by the target keys are its last entries.
C14_AllKeysResolved ==
    ~IsNone(all_keys) =>
        LET ak == Val(all_keys)
            ends == strat_keys \o set_args.targets_key.items
        IN /\ \A i, j \in 1..Len(ak) : i # j => ak[i] # ak[j]
           /\ num_feat_keys \in 0..Len(ak)
           /\ Range(SubSeq(ak, 1, num_feat_keys)) \cap Range(ends) = {}
           /\ SubSeq(ak, num_feat_keys + 1, Len(ak)) = ends
           /\ Len(ak) = num_feat_keys + Len(ends)

C14_Witness ==
    /\ ~IsNone(all_keys)
    /\ set_args.scope = List(<<"data", "sex">>)
    /\ set_args.targets_key = List(<<"dx_1", "dx_2">>)
    /\ Val(all_keys) = <<"sex", "roi_b", "roi_a", "sex_strat", "dx_1", "dx_2">>

\* ------------------------------------------------ feature importances
\* The engine over what the caller asks of the importances: how many methods
\* are given and what the fitted base model exposes, with a search
\* configured, one metric and no subject filter.
InitImportances ==
    /\ final_subjects = None
    /\ compute_train_score \in BOOLEAN
    /\ is_search = TRUE
    /\ has_proba = FALSE
    /\ n_metrics = 1
    /\ SingleTarget
    /\ feat_importances_params \in 0..MaxImportances
    /\ model_kind \in {"linear", "tree", "other"}
    /\ search_split_vals = FALSE
    /\ fit_in_place = FALSE
    /\ Constructed
    /\ hash_seed = "a"
    /\ first = None
    /\ NoScopes

SpecImportances == InitImportances /\ [][Next]_vars

\* The calls of one kind made on the i-th importance method given.
CallsOf(i, name) ==
    Len(SelectSeq(imp_log, LAMBDA c : c.method = i /\ c.call = name))

\* C27: whatever importance methods are given, the engine's list of
\* importance methods is empty after construction, no importance step is
\* executed in any fold, and the importance records Evaluate and Test
\* return are the empty list.
C27_NoImportanceStep ==
    /\ feat_importances = <<>>
    /\ imp_log = <<>>
    /\ ~IsNone(ret) => Val(ret).feat_importances = <<>>

C27_Witness ==
    /\ feat_importances_params = MaxImportances
    /\ EvaluateDone
    /\ Len(subject_splits) >= 2
    /\ Val(ret).feat_importances = <<>>

\* C22: for each configured importance method the global snapshot is
\* initialised exactly once per run: once the first fold of an Evaluate
\* (fold index 0) or the single fold of a Test has been processed, one
\* init_global call has been made on the method, and never a second one.
C22_GlobalInitOnce ==
    \A i \in 1..feat_importances_params :
        /\ CallsOf(i, "init_global") <= 1
        /\ (\/ (op = "Evaluate" /\ pc \in {"loop", "done"} /\ fold_ind >= 1)
            \/ TestDone)
           => CallsOf(i, "init_global") = 1

\* C23: when an Evaluate has returned, every configured importance method
\* has taken one local snapshot per fold, averaged the accumulator once per
\* repeat, and run set_final_local once.
C23_LocalPerFold ==
    \A i \in 1..feat_importances_params :
        EvaluateDone =>
            /\ CallsOf(i, "proc_importances") = Len(subject_splits)
            /\ CallsOf(i, "init_local") = args.n_repeats
            /\ CallsOf(i, "proc_local") = args.n_repeats
            /\ CallsOf(i, "set_final_local") = 1

\* C24: after a fold of an engine with importance methods configured, the
\* flag 'linear' is true exactly when the fitted base model exposes
\* coefficients and 'tree' exactly when it exposes tree importances.
C24_FlagsReflectModel ==
    (feat_importances_params >= 1 /\ Model.state = "fitted"
     /\ pc \in {"loop", "done"})
    => /\ flags.linear = (model_kind = "linear")
       /\ flags.tree = (model_kind = "tree")

\* ------------------------------------------------------ search and ledger
\* The engine with a search configured and one metric, over both ways the
\* search can split: k-fold, or leave-one-group-out on supplied values.
InitSearch ==
    /\ final_subjects \in {None, Some(1..(MaxSubj - 1))}
    /\ compute_train_score \in BOOLEAN
    /\ is_search = TRUE
    /\ has_proba = FALSE
    /\ n_metrics = 1
    /\ SingleTarget
    /\ feat_importances_params = 0
    /\ model_kind = "other"
    /\ search_split_vals \in BOOLEAN
    /\ fit_in_place = FALSE
    /\ Constructed
    /\ hash_seed \in HashSeeds
    /\ first = None
    /\ NoScopes

SpecSearch == InitSearch /\ [][Next]_vars

\* The split the engine worked on last: the arguments of a direct Test, the
\* fold just completed of an Evaluate, or the fold that raised.
CurSplit ==
    IF op = "Test" THEN <<args.train_subjects, args.test_subjects>>
    ELSE LET k == IF pc = "raised" THEN fold_ind + 1 ELSE fold_ind
         IN <<Range(subject_splits[k][1]), Range(subject_splits[k][2])>>

\* A fold has got as far as building its model.
FoldStarted ==
    \/ op = "Test"
    \/ op = "Evaluate" /\ pc \in {"loop", "done"} /\ fold_ind >= 1
    \/ op = "Evaluate" /\ pc = "raised" /\ err # "ConfigurationError"

\* The subjects at a set of positions of the index the search splits.
InnerSubjects(P) == {search_cv.over[p] : p \in P}

\* C25: with a search configured, the inner scheme of a fold is generated
\* over exactly the fold's restricted training subjects: every inner train
\* and validation set lies inside the fold's training set and, the fold's
\* train and test sets being disjoint, holds no test subject; the scheme is
\* k-fold with the configured split count when the search has no split
\* values and leave-one-group-out (one inner split per group label of the
\* training subjects) when it has.
C25_InnerSplitsInsideTrain ==
    FoldStarted =>
        LET train == Restricted(CurSplit[1])
            test == Restricted(CurSplit[2])
            N == Len(search_cv.over)
        IN /\ Range(search_cv.over) = train
           /\ N = Cardinality(train)
           /\ \A i \in DOMAIN search_cv.splits :
                 LET inner == search_cv.splits[i][1] \cup search_cv.splits[i][2]
                 IN /\ inner \subseteq 1..N
                    /\ InnerSubjects(inner) \subseteq train
                    /\ train \cap test = {} => InnerSubjects(inner) \cap test = {}
                    /\ search_cv.splits[i][1] \cap search_cv.splits[i][2] = {}
           /\ op = "Evaluate" => train \cap test = {}
           /\ IF search_split_vals
              THEN /\ search_cv.scheme = "leave_one_group_out"
                   /\ Len(search_cv.splits) =
                         Cardinality({group_labels[s] : s \in train})
              ELSE /\ search_cv.scheme = "k_fold"
                   /\ train # {} => Len(search_cv.splits) = SearchSplits

C25_Witness ==
    /\ op = "Evaluate"
    /\ pc = "loop"
    /\ fold_ind >= 1
    /\ search_cv.scheme = "leave_one_group_out"
    /\ Len(search_cv.splits) >= 2
    /\ \A i \in DOMAIN search_cv.splits :
          search_cv.splits[i][1] # {} /\ search_cv.splits[i][2] # {}

\* The ledger cell of column col at row p: NaN when the column does not
\* exist.
Cell(df, col, p) == IF col \in DOMAIN df.cols THEN df.cols[col][p] ELSE NaN

\* The test-side columns of repeat r: the point predictions and the fold tag.
TestCols(r) == {IntStr(r), IntStr(r) \o "_fold"}

\* One fold of a k-fold Evaluate, seen from the test-side cells: a cell that
\* changes was empty, belongs to the repeat of the fold and to a subject of
\* the fold's test set; when the last fold has completed no cell is empty.
C28_Step ==
    (op = "Evaluate" /\ pc = "loop" /\ ~args.splits_vals) =>
        /\ raw_preds_df'.index = raw_preds_df.index
        /\ \A r \in 1..args.n_repeats : \A c \in TestCols(r) :
              \A p \in 1..Len(raw_preds_df.index) :
                 /\ Cell(raw_preds_df', c, p) # Cell(raw_preds_df, c, p) =>
                       /\ Cell(raw_preds_df, c, p) = NaN
                       /\ r = RepeatOf(fold_ind)
                       /\ raw_preds_df.index[p] \in
                             Range(subject_splits[fold_ind + 1][2])
                 /\ pc' = "done" => Cell(raw_preds_df', c, p) # NaN

\* C28: during a k-fold Evaluate every test-side ledger cell (subject s,
\* column '<r>' or '<r>_fold') is written exactly once over the run, in the
\* fold of repeat r whose test set contains s; no later fold overwrites it.
C28_TestCellsWrittenOnce == [][C28_Step]_vars

C28_Witness ==
    /\ EvaluateDone
    /\ ~args.splits_vals
    /\ compute_train_score
    /\ args.n_repeats = 2
    /\ n_splits_ = 3
    /\ \A r \in 1..2 : \A c \in TestCols(r) : \A p \in 1..Len(raw_preds_df.index) :
          Cell(raw_preds_df, c, p) # NaN

\* The folds (1-based, within repeat r) whose training set holds subject s.
TrainFoldsOf(r, s) ==
    {f \in 1..n_splits_ : s \in Range(subject_splits[(r - 1) * n_splits_ + f][1])}

\* The largest member of a non-empty set of numbers.
Max(S) == CHOOSE x \in S : \A y \in S : y <= x

\* C29: after a completed k-fold Evaluate with train-side scoring, the
\* train-side cells hold the last write: for every repeat r and subject s,
\* 'train_<r>_fold' is the number of the last fold of r whose training set
\* contains s, which is n_splits unless s is a test subject of fold
\* n_splits, and then n_splits - 1; 'train_<r>' is that fold's prediction.
C29_TrainLastWriteWins ==
    (EvaluateDone /\ compute_train_score /\ ~args.splits_vals) =>
        \A r \in 1..args.n_repeats : \A p \in 1..Len(raw_preds_df.index) :
            LET s == raw_preds_df.index[p]
                last == Max(TrainFoldsOf(r, s))
                split == subject_splits[(r - 1) * n_splits_ + last]
            IN /\ TrainFoldsOf(r, s) # {}
               /\ last = IF s \in Range(subject_splits[r * n_splits_][2])
                         THEN n_splits_ - 1 ELSE n_splits_
               /\ Cell(raw_preds_df, "train_" \o IntStr(r) \o "_fold", p) = IntStr(last)
               /\ Cell(raw_preds_df, "train_" \o IntStr(r), p) =
                     FloatStr(Predict(Fitted(split[1]), s))

C29_Witness ==
    /\ EvaluateDone
    /\ compute_train_score
    /\ ~args.splits_vals
    /\ n_splits_ = 3
    /\ args.n_repeats = 2
    /\ \E p, q \in 1..Len(raw_preds_df.index) :
          /\ Cell(raw_preds_df, "train_2_fold", p) = "2"
          /\ Cell(raw_preds_df, "train_2_fold", q) = "3"

InitTable ==
    /\ final_subjects \in {None, Some(1..(MaxSubj - 1))}
    /\ compute_train_score \in BOOLEAN
    /\ is_search = TRUE
    /\ has_proba = FALSE
    /\ n_metrics = 1
    /\ SingleTarget
    /\ feat_importances_params = 0
    /\ model_kind = "other"
    /\ search_split_vals = FALSE
    /\ fit_in_place \in BOOLEAN
    /\ Constructed
    /\ hash_seed \in HashSeeds
    /\ first = None
    /\ NoScopes

SpecTable == InitTable /\ [][Next]_vars

\* C26: Evaluate and Test never modify the Data Table passed in, whether
\* the call returns or ends in an error and whatever the estimator does to
\* the arrays it is given: the engine works on re-sliced copies of the
\* resolved columns and the fold's subjects.
C26_TableUntouched == data_table = features

C26_Witness ==
    /\ fit_in_place
    /\ op = "Evaluate"
    /\ pc = "raised"
    /\ err = "MetricError"
    /\ fold_ind >= 1
    /\ Len(fit_X) >= 2
    /\ \A p \in DOMAIN fit_X : fit_X[p] = 0
    /\ data_table = features

\* ------------------------------------------- calls on one engine object
\* A call has ended and control is back with the caller: the locals of
\* Evaluate and Test are gone, the engine object keeps its attributes, and
\* the caller may call again.
Return ==
    /\ pc \in {"done", "raised"}
    /\ pc' = "idle"
    /\ op' = "none"
    /\ args' = NoArgs
    /\ subject_splits' = <<>>
    /\ fold_ind' = 0
    /\ all_train_scores' = <<>>
    /\ all_scores' = <<>>
    /\ ret' = None
    /\ err' = "none"
    /\ fold_ret' = None
    /\ UNCHANGED <<config, engine, hash_seed, first, scopes_obj, importances,
                   search_cv, data_table, fit_X>>

InitCalls ==
    /\ final_subjects \in {None, Some(1..(MaxSubj - 1))}
    /\ compute_train_score \in BOOLEAN
    /\ is_search = TRUE
    /\ has_proba = FALSE
    /\ n_metrics = 1
    /\ SingleTarget
    /\ PlainSetup
    /\ Constructed
    /\ hash_seed = "a"
    /\ first = None
    /\ NoScopes

\* The caller's script: k-fold Evaluate calls on the whole table and Test
\* calls that train on all subjects but the last, in any order and number.
NextCalls ==
    \/ \E k \in 2..MaxSplits, n \in 1..MaxRepeats : CallEvaluate(Subjects, k, n, FALSE)
    \/ EvaluateFold
    \/ \E T \in {{MaxSubj}, Subjects} : CallTest(1..(MaxSubj - 1), T)
    \/ Return

SpecCalls == InitCalls /\ [][NextCalls]_vars

\* The columns the folds of the Evaluate call in progress can write.
EvaluateCols ==
    {target} \cup UNION {TestCols(r) \cup {"train_" \o c : c \in TestCols(r)} :
                            r \in 1..args.n_repeats}

\* The columns a direct Test call can write.
TestCallCols == {target, "", "_fold", "train_", "train__fold"}

====
